---- MODULE Spec2Model ----
(***************************************************************************)
(* plantrack (src/src/main.rs): the interval scheduling engine.            *)
(*                                                                         *)
(* Instants (DateTime<Utc>) are integers: minutes since 1970-01-01T00:00Z. *)
(* A NaiveTime is a record [hour, minute, second]; a NaiveDate is a day    *)
(* number; a time zone is its offsets and the instants they change at.     *)
(* Strings are sequences of one-character strings, so that splitting,      *)
(* trimming, parsing and formatting are computed.  Option<T> is <<>>       *)
(* (None) or <<x>> (Some(x)).  Uuid::new_v4 is a counter of fresh ids.     *)
(*                                                                         *)
(* Specifications:                                                         *)
(*   Spec             the program, one action per command                  *)
(*   SpecRound        round_time_to_interval on its own                    *)
(*   SpecMerge        merge_events on arbitrary event lists                *)
(*   SpecMergeStored  merge_events on well-formed event lists              *)
(*   SpecParse        parse_datetime_range on its own                      *)
(*   SpecSlot         find_free_slot on its own, one loop turn per step    *)
(*   SpecSlotFair     SpecSlot with the loop taking its turns              *)
(*   SpecNext         find_next_event_time on arbitrary event lists        *)
(*   SpecDiff         print_event_diff on pairs of snapshots               *)
(*   SpecReport       generate_report on its own                           *)
(*   SpecSplit        split_overlapping_events on its own                  *)
(***************************************************************************)
EXTENDS Integers, Sequences, FiniteSets, TLC

VARIABLES
    events,     \* the stored event list (the schedule file), Vec<ScheduleEvent>
    nextId,     \* source of fresh ids (Uuid::new_v4)
    opCount,    \* number of program runs so far
    last,       \* what the last program run did
    now,        \* the clock at the last program run (Utc::now(), whole minutes)
    inp,        \* input of the function under check (function specifications)
    out         \* its result, or Pending

vars == <<events, nextId, opCount, last, now, inp, out>>

Pending == [tag |-> "pending"]
NoInput == [tag |-> "none"]
NoRun   == [op |-> "none"]

---------------------------------------------------------------------------
(* Bounds of the model *)

\* intervals 1..MaxInterval are tried by the rounding specification
MaxInterval == 16
\* number of program runs in the program specification
MaxOps == 3
\* length of the event lists given to merge_events
MaxLen == 3

---------------------------------------------------------------------------
(* Time of day *)

MinutesPerHour == 60
HoursPerDay == 24
MinutesPerDay == HoursPerDay * MinutesPerHour

NaiveTime(h, m, s) == [hour |-> h, minute |-> m, second |-> s]

\* minutes since midnight of a time of day
MinuteOfDay(t) == t.hour * MinutesPerHour + t.minute

\* the time of day at minute-of-day n (seconds zero)
TimeAtMinute(n) == NaiveTime(n \div MinutesPerHour, n % MinutesPerHour, 0)

\* fn round_time_to_interval(time, interval, round_up) -> NaiveTime
\* (interval >= 1; interval = 0 divides by zero)
RoundNewMinute(time, interval, round_up) ==
    LET minute    == time.minute
        remainder == minute % interval
    IN  IF remainder = 0 THEN minute
        ELSE IF round_up THEN minute + (interval - remainder)
        ELSE minute - remainder

\* a rounding that carries the minute overflow into the hour without wrapping
\* the hour at midnight
round_time_no_hour_wrap(time, interval, round_up) ==
    LET new_minute == RoundNewMinute(time, interval, round_up)
    IN  [hour |-> time.hour + (new_minute \div 60), minute |-> new_minute % 60,
         second |-> 0]

round_time_to_interval(time, interval, round_up) ==
    LET new_minute == RoundNewMinute(time, interval, round_up)
    IN  IF new_minute >= 60
        THEN LET hour_offset == new_minute \div 60
                 new_hour    == (time.hour + hour_offset) % 24
             IN  [hour |-> new_hour, minute |-> new_minute % 60, second |-> 0]
        ELSE [hour |-> time.hour, minute |-> new_minute, second |-> 0]

---------------------------------------------------------------------------
(* Events *)

None == <<>>
Some(x) == <<x>>

\* struct ScheduleEvent
ScheduleEvent(id, start_time, end_time, summary, note, location, booked) ==
    [id |-> id, start_time |-> start_time, end_time |-> end_time,
     summary |-> summary, note |-> note, location |-> location, booked |-> booked]

\* A String is a sequence of one-character strings.
Str_AB == <<"A", ":", "B">>
Str_CD == <<"C", ":", "D">>
Str_n  == <<"n">>

\* the byte of a character (of the characters the model uses)
Ascii(c) ==
    CASE c = " " -> 32 [] c = "+" -> 43 [] c = "-" -> 45 [] c = "/" -> 47
      [] c = "0" -> 48 [] c = "1" -> 49 [] c = "2" -> 50 [] c = "3" -> 51
      [] c = "4" -> 52 [] c = "5" -> 53 [] c = "6" -> 54 [] c = "7" -> 55
      [] c = "8" -> 56 [] c = "9" -> 57 [] c = ":" -> 58
      [] c = "A" -> 65 [] c = "B" -> 66 [] c = "C" -> 67 [] c = "D" -> 68
      [] c = "l" -> 108 [] c = "n" -> 110 [] c = "x" -> 120

\* Ord of String: byte-wise lexicographic
RECURSIVE StrLess(_, _)
StrLess(a, b) ==
    IF b = <<>> THEN FALSE
    ELSE IF a = <<>> THEN TRUE
    ELSE IF a[1] # b[1] THEN Ascii(a[1]) < Ascii(b[1])
    ELSE StrLess(Tail(a), Tail(b))

\* Ord of Option<String>: None < Some(_)
OptLess(a, b) ==
    \/ a = None /\ b # None
    \/ a # None /\ b # None /\ StrLess(a[1], b[1])

\* Ord of bool: false < true
BoolLess(a, b) == ~a /\ b

\* the chunk_by key of merge_events
GroupKey(e) == <<e.summary, e.note, e.location, e.booked>>

\* Ord of the sort key (summary, note, location, booked, start_time)
KeyLess(a, b) ==
    \/ StrLess(a.summary, b.summary)
    \/ /\ a.summary = b.summary
       /\ \/ OptLess(a.note, b.note)
          \/ /\ a.note = b.note
             /\ \/ OptLess(a.location, b.location)
                \/ /\ a.location = b.location
                   /\ \/ BoolLess(a.booked, b.booked)
                      \/ /\ a.booked = b.booked
                         /\ a.start_time < b.start_time

ByKey == "key"
ByStart == "start"

Less(order, a, b) ==
    IF order = ByStart THEN a.start_time < b.start_time ELSE KeyLess(a, b)

\* Vec::sort_by_key / sort_by: a stable sort.  The last element goes behind
\* the elements of the sorted rest that are not ordered after it: the
\* smaller ones, and the equal ones, which precede it in s.
LeftUnsorted(order, s) == s

RECURSIVE StableSort(_, _)
StableSort(order, s) ==
    IF s = <<>> THEN <<>>
    ELSE LET front == StableSort(order, SubSeq(s, 1, Len(s) - 1))
             x == s[Len(s)]
             k == Cardinality({i \in DOMAIN front : ~Less(order, x, front[i])})
         IN  SubSeq(front, 1, k) \o <<x>> \o SubSeq(front, k + 1, Len(front))

\* ScheduleEvent::can_merge
can_merge(self, other) ==
    /\ self.summary = other.summary
    /\ self.note = other.note
    /\ self.location = other.location
    /\ self.booked = other.booked
    /\ self.end_time = other.start_time

\* an inner loop that absorbs at most one following event
AbsorbOnce(merged_event, rest) ==
    IF /\ rest # <<>>
       /\ GroupKey(rest[1]) = GroupKey(merged_event)
       /\ can_merge(merged_event, rest[1])
    THEN [merged_event |-> [merged_event EXCEPT !.end_time = rest[1].end_time],
          rest |-> Tail(rest)]
    ELSE [merged_event |-> merged_event, rest |-> rest]

\* an inner loop that keeps the id of the absorbed event instead of the id of
\* the event that absorbs it
RECURSIVE AbsorbKeepLastId(_, _)
AbsorbKeepLastId(merged_event, rest) ==
    IF /\ rest # <<>>
       /\ GroupKey(rest[1]) = GroupKey(merged_event)
       /\ can_merge(merged_event, rest[1])
    THEN AbsorbKeepLastId([rest[1] EXCEPT !.start_time = merged_event.start_time],
                          Tail(rest))
    ELSE [merged_event |-> merged_event, rest |-> rest]

\* the inner loop of merge_events: merged_event absorbs the following events
\* of its group for as long as can_merge holds
RECURSIVE Absorb(_, _)
Absorb(merged_event, rest) ==
    IF /\ rest # <<>>
       /\ GroupKey(rest[1]) = GroupKey(merged_event)
       /\ can_merge(merged_event, rest[1])
    THEN Absorb([merged_event EXCEPT !.end_time = rest[1].end_time], Tail(rest))
    ELSE [merged_event |-> merged_event, rest |-> rest]

\* the outer loop of merge_events over the list sorted by key
RECURSIVE MergeGroups(_)
MergeGroups(sorted) ==
    IF sorted = <<>> THEN <<>>
    ELSE LET r == Absorb(sorted[1], Tail(sorted))
         IN  <<r.merged_event>> \o MergeGroups(r.rest)

\* fn merge_events(events: &mut Vec<ScheduleEvent>)
merge_events(evs) ==
    StableSort(ByStart, MergeGroups(StableSort(ByKey, evs)))

---------------------------------------------------------------------------
(* Specification SpecMerge: merge_events on every list of at most MaxLen    *)
(* events, in any order, over three instants and two attribute tuples.     *)
(* The ranges are those the program can give an event: positive, empty     *)
(* ("10:00-10:00"), or running backwards to the midnight that starts the   *)
(* day ("10:00-23:50" rounded up); they may overlap and share a start.     *)

At(h, m) == h * MinutesPerHour + m

MergeTimes == {At(9, 0), At(10, 0), At(11, 0)}

Attrs(summary, note, location, booked) ==
    [summary |-> summary, note |-> note, location |-> location, booked |-> booked]

MergeAttrs ==
    {Attrs(Str_AB, None, None, TRUE),
     Attrs(Str_CD, Some(Str_n), None, FALSE)}

Midnight == At(0, 0)

MergeShapes ==
    {sh \in [start_time : MergeTimes, end_time : MergeTimes \cup {Midnight},
             attrs : MergeAttrs] :
        sh.end_time >= sh.start_time \/ sh.end_time = Midnight}

\* the list whose i-th event has shape f[i] and id i
ListOf(f) ==
    [i \in DOMAIN f |->
        ScheduleEvent(i, f[i].start_time, f[i].end_time, f[i].attrs.summary,
                      f[i].attrs.note, f[i].attrs.location, f[i].attrs.booked)]

InitMerge ==
    /\ events = <<>>
    /\ nextId = 1
    /\ opCount = 0
    /\ now = 0
    /\ last = NoRun
    /\ \E n \in 0..MaxLen : \E f \in [1..n -> MergeShapes] :
          inp = [tag |-> "merge", list |-> ListOf(f)]
    /\ out = Pending

ApplyMerge ==
    /\ inp.tag = "merge"
    /\ out = Pending
    /\ out' = [tag |-> "events", value |-> merge_events(inp.list)]
    /\ UNCHANGED <<events, nextId, opCount, last, now, inp>>

NextMerge == ApplyMerge

SpecMerge == InitMerge /\ [][NextMerge]_vars

Merged == inp.tag = "merge" /\ out # Pending

Range(s) == {s[i] : i \in DOMAIN s}
Ids(s) == {s[i].id : i \in DOMAIN s}

\* C3: applying merge_events to its own result changes nothing (same events,
\* ids, ranges and order), for every list, including lists with overlapping,
\* equal-start and zero-length events.
C3_MergeIdempotent == Merged => merge_events(out.value) = out.value

\* C3 witness: a list of three events holding a zero-length event was merged
\* into fewer events.
C3_Witness ==
    /\ Merged
    /\ Len(inp.list) = 3
    /\ Len(out.value) < 3
    /\ \E e \in Range(inp.list) : e.start_time = e.end_time

Overlap(a, b) == a.start_time < b.end_time /\ a.end_time > b.start_time

\* Specification SpecMergeStored: merge_events on the lists it is given when
\* every event is well formed: end > start, no two events overlap, sorted by
\* start time (split_overlapping_events and delete_event sort before they
\* merge).
StoredTimes == {At(9, 0), At(10, 0), At(11, 0), At(12, 0), At(13, 0)}

StoredShapes ==
    {sh \in [start_time : StoredTimes, end_time : StoredTimes, attrs : MergeAttrs] :
        sh.end_time > sh.start_time}

WellFormedList(l) ==
    /\ \A i \in DOMAIN l : l[i].end_time > l[i].start_time
    /\ \A i, j \in DOMAIN l : i < j => l[i].start_time <= l[j].start_time
    /\ \A i, j \in DOMAIN l : i # j => ~Overlap(l[i], l[j])

InitMergeStored ==
    /\ events = <<>>
    /\ nextId = 1
    /\ opCount = 0
    /\ now = 0
    /\ last = NoRun
    /\ \E n \in 0..MaxLen : \E f \in [1..n -> StoredShapes] :
          /\ WellFormedList(ListOf(f))
          /\ inp = [tag |-> "merge", list |-> ListOf(f)]
    /\ out = Pending

SpecMergeStored == InitMergeStored /\ [][NextMerge]_vars

SameAttrs(a, b) == GroupKey(a) = GroupKey(b)

\* some other event with the same attributes ends where x starts
ChainedBefore(l, x, y) ==
    \E z \in Range(l) \ {x, y} : SameAttrs(z, x) /\ z.end_time = x.start_time

\* some other event with the same attributes starts where y ends
ChainedAfter(l, x, y) ==
    \E z \in Range(l) \ {x, y} : SameAttrs(z, y) /\ z.start_time = y.end_time

Adjacent(x, y) == x # y /\ SameAttrs(x, y) /\ x.end_time = y.start_time

MinOf(a, b) == IF a <= b THEN a ELSE b
MaxOf(a, b) == IF a >= b THEN a ELSE b

---------------------------------------------------------------------------
(* Specification SpecRound: round_time_to_interval on every time of day *)

Seconds == {0, 30}
Intervals == (1..MaxInterval) \cup {30, 45, 60, 90}

RoundInputs ==
    [tag : {"round"},
     time : [hour : 0..23, minute : 0..59, second : Seconds],
     interval : Intervals,
     round_up : BOOLEAN]

InitRound ==
    /\ events = <<>>
    /\ nextId = 1
    /\ opCount = 0
    /\ now = 0
    /\ last = NoRun
    /\ inp \in RoundInputs
    /\ out = Pending

ApplyRound ==
    /\ inp.tag = "round"
    /\ out = Pending
    /\ out' = [tag |-> "time",
               value |-> round_time_to_interval(inp.time, inp.interval, inp.round_up)]
    /\ UNCHANGED <<events, nextId, opCount, last, now, inp>>

NextRound == ApplyRound

SpecRound == InitRound /\ [][NextRound]_vars

Rounded == inp.tag = "round" /\ out # Pending

\* the rounding of spec section 4.1, on minutes since midnight
ReferenceRound(time, interval, round_up) ==
    LET total     == MinuteOfDay(time)
        remainder == total % interval
        moved     == IF remainder = 0 THEN total
                     ELSE IF round_up THEN total + (interval - remainder)
                     ELSE total - remainder
    IN  TimeAtMinute(moved % MinutesPerDay)

\* C8 (as claimed): for every time of day, every interval >= 1 and both
\* directions, round_time_to_interval returns the reference rounding computed
\* from remainder = minutes_since_midnight % interval, seconds zeroed.
C8_RoundEqualsReference ==
    Rounded => out.value = ReferenceRound(inp.time, inp.interval, inp.round_up)

RoundCase(h, m, interval, round_up) ==
    /\ Rounded
    /\ inp.time.hour = h /\ inp.time.minute = m
    /\ inp.interval = interval /\ inp.round_up = round_up

\* C9 (amended): with a 15-minute interval 14:07 rounds down to 14:00 and up
\* to 14:15, and 23:55 rounded up wraps past midnight to 00:00.
C9_RoundingExamples ==
    /\ RoundCase(14, 7, 15, FALSE) => out.value = NaiveTime(14, 0, 0)
    /\ RoundCase(14, 7, 15, TRUE) => out.value = NaiveTime(14, 15, 0)
    /\ RoundCase(23, 55, 15, TRUE) => out.value = NaiveTime(0, 0, 0)

\* C9 witness: 23:55 has been rounded up with interval 15.
C9_Witness == RoundCase(23, 55, 15, TRUE) /\ out.value.hour = 0

\* C9 (as claimed): ... and rounding 23:55 up with a 15-minute interval wraps
\* past midnight to 00:10.
C9_AsClaimed ==
    /\ RoundCase(14, 7, 15, FALSE) => out.value = NaiveTime(14, 0, 0)
    /\ RoundCase(14, 7, 15, TRUE) => out.value = NaiveTime(14, 15, 0)
    /\ RoundCase(23, 55, 15, TRUE) => out.value = NaiveTime(0, 10, 0)

\* ---------------------------------------------------------------------
\* Calendar and time zones.  An instant (DateTime<Utc>) is the number of
\* minutes since 1970-01-01T00:00Z; a NaiveDate is the number of days
\* since 1970-01-01; a NaiveDateTime is date * MinutesPerDay + minute of
\* day; a DateTime<Tz> is an instant together with its zone.

\* NaiveDate::from_ymd_opt: the day number of a civil date
DaysFromCivil(y, m, d) ==
    LET yy  == IF m <= 2 THEN y - 1 ELSE y
        era == yy \div 400
        yoe == yy - era * 400
        mp  == IF m > 2 THEN m - 3 ELSE m + 9
        doy == (153 * mp + 2) \div 5 + d - 1
        doe == yoe * 365 + yoe \div 4 - yoe \div 100 + doy
    IN  era * 146097 + doe - 719468

IsLeapYear(y) == (y % 4 = 0 /\ y % 100 # 0) \/ y % 400 = 0

DaysInMonth(y, m) ==
    IF m = 2 THEN (IF IsLeapYear(y) THEN 29 ELSE 28)
    ELSE IF m \in {4, 6, 9, 11} THEN 30 ELSE 31

\* chrono_tz::Tz, as the offset (minutes east of UTC) in force before the
\* first transition and the transitions in the order they happen
UTC == [name |-> "UTC", base |-> 0, shifts |-> <<>>]

EuropeBerlin ==
    [name |-> "Europe/Berlin", base |-> 60,
     shifts |-> << [at |-> DaysFromCivil(2024, 3, 31) * MinutesPerDay + 60,
                    offset |-> 120],
                   [at |-> DaysFromCivil(2024, 10, 27) * MinutesPerDay + 60,
                    offset |-> 60] >>]

\* TimeZone::offset_from_utc_datetime
offset_from_utc(tz, u) ==
    LET past == {i \in 1..Len(tz.shifts) : tz.shifts[i].at <= u}
    IN  IF past = {} THEN tz.base
        ELSE tz.shifts[CHOOSE i \in past : \A j \in past : j <= i].offset

Offsets(tz) == {tz.base} \cup {tz.shifts[i].offset : i \in 1..Len(tz.shifts)}

DateTime(u, tz) == [utc |-> u, tz |-> tz]

\* DateTime::naive_local, and its date and time parts
naive_local(dt) == dt.utc + offset_from_utc(dt.tz, dt.utc)

date_naive(dt) == naive_local(dt) \div MinutesPerDay

time(dt) == TimeAtMinute(naive_local(dt) % MinutesPerDay)

\* TimeZone::from_local_datetime: the instants whose local reading is l
LocalCandidates(tz, l) ==
    {u \in {l - o : o \in Offsets(tz)} : u + offset_from_utc(tz, u) = l}

\* LocalResult::unwrap: the single conversion, or a panic
from_local_datetime_unwrap(tz, l) ==
    LET c == LocalCandidates(tz, l)
    IN  IF Cardinality(c) = 1
        THEN [ok |-> TRUE, value |-> DateTime(CHOOSE u \in c : TRUE, tz)]
        ELSE [ok |-> FALSE, err |-> "panic"]

\* DateTime::with_time(..).unwrap(): the given time on the same local date
with_time_unwrap(dt, t) ==
    from_local_datetime_unwrap(dt.tz, date_naive(dt) * MinutesPerDay + MinuteOfDay(t))

Ok(v) == [ok |-> TRUE, value |-> v]
Err(kind) == [ok |-> FALSE, err |-> kind]
InvalidInput == "InvalidInput"
Panic == "panic"

\* ---------------------------------------------------------------------
\* Parsing of the command line's strings

IsDigit(c) == c \in {"0", "1", "2", "3", "4", "5", "6", "7", "8", "9"}

Digit(c) == Ascii(c) - Ascii("0")

\* str::trim_start / str::trim on the blank the model uses
RECURSIVE trim_start(_)
trim_start(s) ==
    IF s # <<>> /\ s[1] = " " THEN trim_start(Tail(s)) ELSE s

RECURSIVE trim_end(_)
trim_end(s) ==
    IF s # <<>> /\ s[Len(s)] = " " THEN trim_end(SubSeq(s, 1, Len(s) - 1)) ELSE s

trim(s) == trim_end(trim_start(s))

\* str::split_once / str::rsplit_once: around the first / last separator
split_once(s, sep) ==
    LET at == {i \in 1..Len(s) : s[i] = sep}
    IN  IF at = {} THEN None
        ELSE LET i == CHOOSE k \in at : \A j \in at : k <= j
             IN  Some(<<SubSeq(s, 1, i - 1), SubSeq(s, i + 1, Len(s))>>)

rsplit_once(s, sep) ==
    LET at == {i \in 1..Len(s) : s[i] = sep}
    IN  IF at = {} THEN None
        ELSE LET i == CHOOSE k \in at : \A j \in at : k >= j
             IN  Some(<<SubSeq(s, 1, i - 1), SubSeq(s, i + 1, Len(s))>>)

\* chrono's numeric item: blanks are skipped, then one to `width` digits
\* are read; the result is the value and the rest of the string
RECURSIVE DigitsValue(_)
DigitsValue(s) ==
    IF s = <<>> THEN 0 ELSE DigitsValue(SubSeq(s, 1, Len(s) - 1)) * 10 + Digit(s[Len(s)])

ScanNumber(str, width) ==
    LET s == trim_start(str)
        n == CHOOSE k \in 0..width :
                 /\ k <= Len(s)
                 /\ \A i \in 1..k : IsDigit(s[i])
                 /\ (k = width \/ k = Len(s) \/ ~IsDigit(s[k + 1]))
    IN  IF n = 0 THEN None
        ELSE Some([value |-> DigitsValue(SubSeq(s, 1, n)),
                   rest |-> SubSeq(s, n + 1, Len(s))])

\* chrono's literal item
ScanLiteral(s, c) ==
    IF s # <<>> /\ s[1] = c THEN Some(Tail(s)) ELSE None

\* NaiveTime::parse_from_str(s, "%H:%M")
ParseTime(s) ==
    LET h == ScanNumber(s, 2)
    IN  IF h = None THEN Err(InvalidInput)
        ELSE LET c == ScanLiteral(h[1].rest, ":")
             IN  IF c = None THEN Err(InvalidInput)
                 ELSE LET m == ScanNumber(c[1], 2)
                      IN  IF m = None \/ m[1].rest # <<>> THEN Err(InvalidInput)
                          ELSE IF h[1].value >= HoursPerDay \/ m[1].value >= MinutesPerHour
                               THEN Err(InvalidInput)
                          ELSE Ok(NaiveTime(h[1].value, m[1].value, 0))

\* NaiveDate::parse_from_str(s, "%Y-%m-%d"), for a year written without a sign
ParseDate(s) ==
    LET y == ScanNumber(s, 4)
    IN  IF y = None THEN Err(InvalidInput)
        ELSE LET c1 == ScanLiteral(y[1].rest, "-")
             IN  IF c1 = None THEN Err(InvalidInput)
        ELSE LET m == ScanNumber(c1[1], 2)
             IN  IF m = None THEN Err(InvalidInput)
        ELSE LET c2 == ScanLiteral(m[1].rest, "-")
             IN  IF c2 = None THEN Err(InvalidInput)
        ELSE LET d == ScanNumber(c2[1], 2)
             IN  IF d = None \/ d[1].rest # <<>> THEN Err(InvalidInput)
        ELSE IF \/ m[1].value \notin 1..12
                \/ d[1].value \notin 1..DaysInMonth(y[1].value, m[1].value)
             THEN Err(InvalidInput)
        ELSE Ok(DaysFromCivil(y[1].value, m[1].value, d[1].value))

\* parse_datetime; utc_now is the instant Utc::now() returns
parse_datetime(time_str, date, timezone, utc_now) ==
    LET d == IF date = None THEN date_naive(DateTime(utc_now, timezone)) ELSE date[1]
        t == ParseTime(time_str)
    IN  IF ~t.ok THEN Err(InvalidInput)
        ELSE from_local_datetime_unwrap(timezone, d * MinutesPerDay + MinuteOfDay(t.value))

\* the rounding and conversion at the end of parse_datetime_range
RoundRange(start_datetime_local, end_datetime_local, interval) ==
    LET start_time_rounded == round_time_to_interval(time(start_datetime_local), interval, FALSE)
        end_time_rounded == round_time_to_interval(time(end_datetime_local), interval, TRUE)
        start_time == with_time_unwrap(start_datetime_local, start_time_rounded)
        end_time == with_time_unwrap(end_datetime_local, end_time_rounded)
    IN  IF ~start_time.ok THEN Err(Panic)
        ELSE IF ~end_time.ok THEN Err(Panic)
        ELSE Ok(<<start_time.value.utc, end_time.value.utc>>)

\* parse_datetime_range
parse_datetime_range(timespan, date_str, interval, timezone, utc_now) ==
    LET Between(start_datetime_local, end_parsed) ==
            IF ~start_datetime_local.ok THEN start_datetime_local
            ELSE IF ~end_parsed.ok THEN end_parsed
            ELSE RoundRange(start_datetime_local.value,
                            IF end_parsed.value.utc < start_datetime_local.value.utc
                            THEN DateTime(end_parsed.value.utc + MinutesPerDay, timezone)
                            ELSE end_parsed.value,
                            interval)
        OnDate(parts, date) ==
            IF parts = None THEN Err(InvalidInput)
            ELSE IF ~date.ok THEN Err(InvalidInput)
            ELSE Between(parse_datetime(parts[1][1], date.value, timezone, utc_now),
                         parse_datetime(parts[1][2], date.value, timezone, utc_now))
        Date(d) == IF d.ok THEN Ok(Some(d.value)) ELSE Err(InvalidInput)
    IN  OnDate(rsplit_once(timespan, "-"),
               IF date_str = None THEN Ok(None) ELSE Date(ParseDate(date_str[1])))

\* ---------------------------------------------------------------------
\* Formatting, as the program writes times and dates (format("%H:%M"),
\* format("%Y-%m-%d")); the inputs of the parser are written with it.

DigitChar(n) == <<"0", "1", "2", "3", "4", "5", "6", "7", "8", "9">>[n + 1]

TwoDigits(n) == <<DigitChar((n \div 10) % 10), DigitChar(n % 10)>>

FormatTime(t) == TwoDigits(t.hour) \o <<":">> \o TwoDigits(t.minute)

FormatDate(y, m, d) ==
    TwoDigits(y \div 100) \o TwoDigits(y % 100) \o <<"-">> \o TwoDigits(m)
        \o <<"-">> \o TwoDigits(d)

FormatSpan(s, e) == FormatTime(s) \o <<"-">> \o FormatTime(e)

\* ---------------------------------------------------------------------
\* parse_datetime_range on its own: the timespan, date, rounding interval
\* and zone of one call

ParseTimes ==
    {NaiveTime(0, 30, 0), NaiveTime(1, 0, 0), NaiveTime(2, 30, 0),
     NaiveTime(9, 0, 0), NaiveTime(10, 0, 0), NaiveTime(12, 7, 0),
     NaiveTime(22, 0, 0), NaiveTime(23, 50, 0)}

ParseDates ==
    {None, Some(FormatDate(2024, 3, 16)), Some(FormatDate(2024, 3, 31)),
     Some(FormatDate(2024, 10, 27))}

ParseIntervals == {1, 15}

Zones == {UTC, EuropeBerlin}

\* the clock of the parser runs: 2024-03-16T10:07Z
ParseNow == DaysFromCivil(2024, 3, 16) * MinutesPerDay + 10 * MinutesPerHour + 7

\* timespans that are not two HH:MM times around a '-': no '-', an hour of
\* 25, a minute of 60, a letter, three parts
MalformedTimespans ==
    {<<"0", "9", "0", "0">>,
     <<"2", "5", ":", "0", "0", "-", "1", "0", ":", "0", "0">>,
     <<"0", "9", ":", "0", "0", "-", "1", "0", ":", "6", "0">>,
     <<"0", "9", ":", "0", "0", "-", "x">>,
     <<"0", "9", ":", "0", "0", "-", "1", "0", ":", "0", "0", "-", "1", "1", ":", "0", "0">>}

\* dates that are not in the calendar, or not dates
MalformedDates ==
    {Some(FormatDate(2024, 2, 30)), Some(FormatDate(2024, 13, 1)), Some(<<"x">>)}

ParseTimespans ==
    {FormatSpan(s, e) : s \in ParseTimes, e \in ParseTimes} \cup MalformedTimespans

InitParse ==
    /\ events = <<>>
    /\ nextId = 1
    /\ opCount = 0
    /\ now = ParseNow
    /\ last = NoRun
    /\ \E span \in ParseTimespans, d \in ParseDates \cup MalformedDates,
          i \in ParseIntervals, z \in Zones :
          inp = [tag |-> "parse", timespan |-> span, date_str |-> d,
                 interval |-> i, timezone |-> z]
    /\ out = Pending

ApplyParse ==
    /\ inp.tag = "parse"
    /\ out = Pending
    /\ out' = [tag |-> "range",
               value |-> parse_datetime_range(inp.timespan, inp.date_str,
                                              inp.interval, inp.timezone, now)]
    /\ UNCHANGED <<events, nextId, opCount, last, now, inp>>

NextParse == ApplyParse

SpecParse == InitParse /\ [][NextParse]_vars

\* parse_datetime_range returned Ok((start_time, end_time))
Parsed == inp.tag = "parse" /\ out # Pending /\ out.value.ok

\* the times of day written in the timespan
SpanStart == ParseTime(rsplit_once(inp.timespan, "-")[1][1]).value
SpanEnd == ParseTime(rsplit_once(inp.timespan, "-")[1][2]).value

\* the calendar day, in the call's zone, of the returned start and end
StartDay == date_naive(DateTime(out.value.value[1], inp.timezone))
EndDay == date_naive(DateTime(out.value.value[2], inp.timezone))

\* C10: whenever the end time of day is before the start time of day the
\* returned end is on the calendar day after the start's day; otherwise
\* start and end are on the same date, the given one.
C10_OvernightSpan ==
    Parsed =>
        IF MinuteOfDay(SpanEnd) < MinuteOfDay(SpanStart)
        THEN EndDay = StartDay + 1
        ELSE /\ EndDay = StartDay
             /\ inp.date_str # None => StartDay = ParseDate(inp.date_str[1]).value

\* parse_datetime_range came back, with a range, an error or a panic
ParseDone == inp.tag = "parse" /\ out # Pending

\* a valid HH:MM: two digits, a colon, two digits, hour below 24, minute below 60
ValidHHMM(s) ==
    /\ Len(s) = 5
    /\ IsDigit(s[1]) /\ IsDigit(s[2]) /\ s[3] = ":" /\ IsDigit(s[4]) /\ IsDigit(s[5])
    /\ Digit(s[1]) * 10 + Digit(s[2]) < HoursPerDay
    /\ Digit(s[4]) * 10 + Digit(s[5]) < MinutesPerHour

\* a valid YYYY-MM-DD calendar date
ValidYMD(s) ==
    /\ Len(s) = 10
    /\ \A i \in {1, 2, 3, 4, 6, 7, 9, 10} : IsDigit(s[i])
    /\ s[5] = "-" /\ s[8] = "-"
    /\ LET y == DigitsValue(SubSeq(s, 1, 4))
           m == DigitsValue(SubSeq(s, 6, 7))
           d == DigitsValue(SubSeq(s, 9, 10))
       IN  m \in 1..12 /\ d \in 1..DaysInMonth(y, m)

\* the inputs for which C11 promises a range
WellFormedInput ==
    /\ \E i \in DOMAIN inp.timespan : inp.timespan[i] = "-"
    /\ LET last_dash == CHOOSE i \in DOMAIN inp.timespan :
                            /\ inp.timespan[i] = "-"
                            /\ \A j \in DOMAIN inp.timespan : inp.timespan[j] = "-" => j <= i
       IN  /\ ValidHHMM(SubSeq(inp.timespan, 1, last_dash - 1))
           /\ ValidHHMM(SubSeq(inp.timespan, last_dash + 1, Len(inp.timespan)))
    /\ inp.date_str # None => ValidYMD(inp.date_str[1])

\* C11: parse_datetime_range returns an error, and no range, exactly when
\* the timespan has no '-', a side of the last '-' is not a valid HH:MM, or
\* the supplied date is not a valid YYYY-MM-DD date; in every other case it
\* returns a range.
C11_ErrorExactlyWhenMalformed ==
    ParseDone =>
        IF WellFormedInput
        THEN out.value.ok
        ELSE ~out.value.ok /\ out.value.err = InvalidInput

\* ---------------------------------------------------------------------
\* Overlap resolution

\* what remains of an overlapped existing event: the part before the new
\* event and the part after it, under fresh ids taken from nid on
FragmentsWithoutAfter(existing_event, new_event, nid) ==
    IF new_event.start_time > existing_event.start_time
    THEN <<ScheduleEvent(nid, existing_event.start_time, new_event.start_time,
                         existing_event.summary, existing_event.note,
                         existing_event.location, existing_event.booked)>>
    ELSE <<>>

Fragments(existing_event, new_event, nid) ==
    LET has_before == new_event.start_time > existing_event.start_time
        has_after == new_event.end_time < existing_event.end_time
        before_event ==
            ScheduleEvent(nid, existing_event.start_time, new_event.start_time,
                          existing_event.summary, existing_event.note,
                          existing_event.location, existing_event.booked)
        after_event ==
            ScheduleEvent(IF has_before THEN nid + 1 ELSE nid,
                          new_event.end_time, existing_event.end_time,
                          existing_event.summary, existing_event.note,
                          existing_event.location, existing_event.booked)
    IN  (IF has_before THEN <<before_event>> ELSE <<>>)
            \o (IF has_after THEN <<after_event>> ELSE <<>>)

\* what one turn of the loop pushes to new_events
PushedDropsUntouched(existing_event, new_event, nid) ==
    IF Overlap(new_event, existing_event)
    THEN Fragments(existing_event, new_event, nid)
    ELSE <<>>

Pushed(existing_event, new_event, nid) ==
    IF Overlap(new_event, existing_event)
    THEN Fragments(existing_event, new_event, nid)
    ELSE <<existing_event>>

\* the loop of split_overlapping_events over the drained events
RECURSIVE SplitLoop(_, _, _)
SplitLoop(evs, new_event, nid) ==
    IF evs = <<>>
    THEN [new_events |-> <<>>, next_id |-> nid, overlaps_exist |-> FALSE]
    ELSE LET existing_event == Head(evs)
             overlap == Overlap(new_event, existing_event)
             pushed == Pushed(existing_event, new_event, nid)
             used == IF overlap THEN Len(pushed) ELSE 0
             r == SplitLoop(Tail(evs), new_event, nid + used)
         IN  [new_events |-> pushed \o r.new_events,
              next_id |-> r.next_id,
              overlaps_exist |-> overlap \/ r.overlaps_exist]

\* the new event is not pushed
ResolvedWithoutNew(evs, new_event, nid) ==
    StableSort(ByStart, SplitLoop(evs, new_event, nid).new_events)

\* the list handed to merge_events: fragments and untouched events, the
\* new event pushed last, sorted by start
Resolved(evs, new_event, nid) ==
    StableSort(ByStart, Append(SplitLoop(evs, new_event, nid).new_events, new_event))

\* split_overlapping_events
split_overlapping_events(evs, new_event, nid) ==
    LET r == SplitLoop(evs, new_event, nid)
    IN  [events |-> merge_events(Resolved(evs, new_event, nid)),
         overlaps_exist |-> r.overlaps_exist,
         next_id |-> r.next_id]

\* round_duration_up, in minutes
round_duration_up(minutes, interval) ==
    LET remainder == minutes % interval
    IN  IF remainder > 0 THEN minutes + (interval - remainder) ELSE minutes

\* the rounding interval when neither the command line nor the
\* configuration sets one
rounding == 15

\* ---------------------------------------------------------------------
\* The slot finder

NotFound == "NotFound"
Other == "Other"
\* the outcome of a loop that never ends
Hang == "hang"

\* is_slot_free(..).is_ok(), with every event a conflict that touches
IsSlotFreeTouching(evs, start_time, end_time) ==
    \A i \in DOMAIN evs :
        ~(start_time <= evs[i].end_time /\ end_time >= evs[i].start_time)

SlotAlwaysFree(evs, start_time, end_time) == TRUE

\* is_slot_free(..).is_ok(): no event conflicts with [start_time, end_time)
is_slot_free(evs, start_time, end_time) ==
    \A i \in DOMAIN evs :
        ~(start_time < evs[i].end_time /\ end_time > evs[i].start_time)

\* find_free_slot: the first candidate, current_time before the loop
SlotStart(start_time, interval, utc_now) ==
    IF start_time < utc_now
    THEN with_time_unwrap(DateTime(utc_now, UTC),
             round_time_to_interval(time(DateTime(utc_now, UTC)), interval, TRUE)).value.utc
    ELSE start_time

\* find_free_slot: one test of the loop condition and one turn of its body
SlotIter(evs, current_time, end_time, duration) ==
    IF current_time + duration <= end_time
    THEN IF is_slot_free(evs, current_time, current_time + duration)
         THEN [done |-> TRUE, value |-> Ok(<<current_time, current_time + duration>>)]
         ELSE [done |-> FALSE, current_time |-> current_time + duration]
    ELSE [done |-> TRUE, value |-> Err(Other)]

\* find_free_slot: the loop; a turn that leaves current_time as it was is
\* repeated for ever
RECURSIVE SlotLoop(_, _, _, _)
SlotLoop(evs, current_time, end_time, duration) ==
    LET turn == SlotIter(evs, current_time, end_time, duration)
    IN  IF turn.done THEN turn.value
        ELSE IF turn.current_time = current_time THEN Err(Hang)
        ELSE SlotLoop(evs, turn.current_time, end_time, duration)

\* find_free_slot after its first line: range is the parsed window
FreeSlotIn(evs, range, duration_minutes, interval, utc_now) ==
    IF ~range.ok THEN range
    ELSE SlotLoop(evs, SlotStart(range.value[1], interval, utc_now),
                  range.value[2], duration_minutes)

\* find_free_slot
find_free_slot(evs, timespan, date_str, duration_minutes, interval, timezone, utc_now) ==
    FreeSlotIn(evs, parse_datetime_range(timespan, date_str, interval, timezone, utc_now),
               duration_minutes, interval, utc_now)

\* find_free_slot on its own, one loop turn per step
Day(d) == DaysFromCivil(2024, 3, d) * MinutesPerDay

Booked(id, start_time, end_time) ==
    ScheduleEvent(id, start_time, end_time, Str_AB, None, None, TRUE)

SlotEventLists ==
    {<<>>,
     <<Booked(1, Day(16) + At(9, 0), Day(16) + At(12, 0))>>,
     <<Booked(1, Day(16) + At(9, 0), Day(16) + At(9, 30)),
       Booked(2, Day(16) + At(10, 0), Day(16) + At(11, 0))>>,
     <<Booked(1, Day(16) + At(0, 0), Day(16) + At(0, 30)),
       Booked(2, Day(16) + At(23, 0), Day(17) + At(0, 30))>>,
     <<Booked(1, Day(16) + At(10, 0), Day(16) + At(10, 15))>>}

SlotTimespans ==
    {FormatSpan(NaiveTime(9, 0, 0), NaiveTime(13, 0, 0)),
     FormatSpan(NaiveTime(10, 0, 0), NaiveTime(11, 0, 0)),
     FormatSpan(NaiveTime(9, 0, 0), NaiveTime(9, 0, 0)),
     FormatSpan(NaiveTime(23, 0, 0), NaiveTime(1, 0, 0)),
     <<"0", "9", "0", "0">>}

SlotDurations == {0, 30, 45, 60}

\* the clock: the day before, 08:07, 10:07, 10:30 and 23:50 on 2024-03-16
SlotNows ==
    {Day(15) + At(12, 0), Day(16) + At(8, 7), Day(16) + At(10, 7),
     Day(16) + At(10, 30), Day(16) + At(23, 50)}

InitSlot ==
    /\ events = <<>>
    /\ nextId = 1
    /\ opCount = 0
    /\ now \in SlotNows
    /\ last = NoRun
    /\ \E evs \in SlotEventLists, span \in SlotTimespans, d \in SlotDurations :
          inp = [tag |-> "slot", events |-> evs, timespan |-> span,
                 date_str |-> Some(FormatDate(2024, 3, 16)),
                 duration_minutes |-> d, interval |-> rounding, timezone |-> UTC]
    /\ out = Pending

\* lines 1116-1126: the window is parsed and the first candidate chosen
StartSearch ==
    /\ inp.tag = "slot"
    /\ out = Pending
    /\ \E range \in {parse_datetime_range(inp.timespan, inp.date_str, inp.interval,
                                          inp.timezone, now)} :
           IF ~range.ok
           THEN out' = [tag |-> "slot", value |-> range]
           ELSE \E first \in {SlotStart(range.value[1], inp.interval, now)} :
                    out' = [tag |-> "searching", start_time |-> range.value[1],
                            end_time |-> range.value[2], first |-> first,
                            current_time |-> first]
    /\ UNCHANGED <<events, nextId, opCount, last, now, inp>>

\* lines 1128-1136: one turn of the loop
SearchStep ==
    /\ inp.tag = "slot"
    /\ out.tag = "searching"
    /\ \E turn \in {SlotIter(inp.events, out.current_time, out.end_time,
                             inp.duration_minutes)} :
           IF turn.done
           THEN out' = [tag |-> "slot", value |-> turn.value,
                        start_time |-> out.start_time, end_time |-> out.end_time,
                        first |-> out.first]
           ELSE out' = [out EXCEPT !.current_time = turn.current_time]
    /\ UNCHANGED <<events, nextId, opCount, last, now, inp>>

NextSlot == StartSearch \/ SearchStep

SpecSlot == InitSlot /\ [][NextSlot]_vars

\* the loop is not preempted for ever: a turn that changes the state is
\* taken. A turn that leaves current_time where it was is the loop running
\* for ever; it shows as a behaviour that stays in the searching state.
SpecSlotFair == SpecSlot /\ WF_vars(SearchStep)

\* the search came back with a slot
SlotFound == inp.tag = "slot" /\ out.tag = "slot" /\ out.value.ok

\* the clock rounded up to the next multiple of the interval
NowRoundedUp == ((now + inp.interval - 1) \div inp.interval) * inp.interval

Max(a, b) == IF a >= b THEN a ELSE b

\* C12: a returned slot (s, e) has s >= max(window start, now rounded up to
\* the interval), e = s + duration and e <= window end, for every value of
\* now, including those whose rounding up crosses midnight.
C12_SlotInsideWindow ==
    SlotFound =>
        /\ out.value.value[1] >= Max(out.start_time, NowRoundedUp)
        /\ out.value.value[2] = out.value.value[1] + inp.duration_minutes
        /\ out.value.value[2] <= out.end_time

\* the candidates of a search: first, first + duration, ... while the
\* candidate plus the duration is within the window
Candidates ==
    {c \in out.first..out.end_time :
        /\ c + inp.duration_minutes <= out.end_time
        /\ IF inp.duration_minutes = 0 THEN c = out.first
           ELSE (c - out.first) % inp.duration_minutes = 0}

\* no existing event strictly overlaps [c, c + duration)
FreeAt(c) ==
    \A e \in Range(inp.events) :
        ~(c < e.end_time /\ c + inp.duration_minutes > e.start_time)

\* C13: the search returns the earliest candidate whose interval strictly
\* overlaps no existing event, and ends without a slot only when no
\* candidate is free; with [09:00,12:00) booked, a 30-minute request in
\* [09:00,13:00) gets [12:00,12:30).
C13_EarliestFreeCandidate ==
    inp.tag = "slot" /\ out.tag = "slot" /\ "first" \in DOMAIN out =>
        IF out.value.ok
        THEN /\ out.value.value[1] \in Candidates
             /\ FreeAt(out.value.value[1])
             /\ \A c \in Candidates : c < out.value.value[1] => ~FreeAt(c)
             /\ out.value.value[2] = out.value.value[1] + inp.duration_minutes
        ELSE /\ out.value.err = Other
             /\ \A c \in Candidates : ~FreeAt(c)

\* the search ended without a slot
SlotNotFound ==
    /\ inp.tag = "slot" /\ out.tag = "slot" /\ "first" \in DOMAIN out
    /\ ~out.value.ok /\ out.value.err = Other

\* C30: when find_free_slot reports that no free slot was found, the window
\* contains no interval of the requested duration, starting at or after the
\* search start, that is free of every existing event.
C30_SlotComplete ==
    SlotNotFound =>
        \A c \in out.first..out.end_time :
            c + inp.duration_minutes <= out.end_time => ~FreeAt(c)

SlotExample ==
    /\ inp.tag = "slot"
    /\ inp.events = <<Booked(1, Day(16) + At(9, 0), Day(16) + At(12, 0))>>
    /\ inp.timespan = FormatSpan(NaiveTime(9, 0, 0), NaiveTime(13, 0, 0))
    /\ inp.duration_minutes = 30
    /\ now = Day(16) + At(8, 7)

C13_Witness ==
    /\ SlotExample
    /\ SlotFound
    /\ out.value.value = <<Day(16) + At(12, 0), Day(16) + At(12, 30)>>

\* C14: a search that has started finishes, with a slot or without one, for
\* every event set, window and duration, 0 included.
C14_SearchTerminates == (out.tag = "searching") ~> (out.tag = "slot")

\* ---------------------------------------------------------------------
\* The next-match finder

\* an event qualifies: same summary, not started yet, longer than duration
Qualifies(event, project_task, duration, utc_now) ==
    /\ event.summary = project_task
    /\ event.start_time >= utc_now
    /\ event.end_time > event.start_time + duration

\* the filter with an event as long as the duration let through
QualifiesWhenEqual(event, project_task, duration, utc_now) ==
    /\ event.summary = project_task
    /\ event.start_time >= utc_now
    /\ event.end_time >= event.start_time + duration

\* the finder taking the last of the filtered events instead of the first
FindNextTakingLast(evs, project_task, duration_minutes, utc_now) ==
    LET target_events ==
            SelectSeq(evs, LAMBDA e : Qualifies(e, project_task, duration_minutes, utc_now))
    IN  IF target_events # <<>>
        THEN Ok(<<target_events[Len(target_events)].start_time,
                  target_events[Len(target_events)].start_time + duration_minutes>>)
        ELSE Err(NotFound)

\* the finder with QualifiesWhenEqual as its filter
FindNextWhenEqual(evs, project_task, duration_minutes, utc_now) ==
    LET target_events ==
            SelectSeq(evs, LAMBDA e :
                               QualifiesWhenEqual(e, project_task, duration_minutes, utc_now))
    IN  IF target_events # <<>>
        THEN Ok(<<target_events[1].start_time,
                  target_events[1].start_time + duration_minutes>>)
        ELSE Err(NotFound)

\* fn find_next_event_time(events, project_task, duration_minutes, now)
find_next_event_time(evs, project_task, duration_minutes, utc_now) ==
    LET target_events ==
            SelectSeq(evs, LAMBDA e : Qualifies(e, project_task, duration_minutes, utc_now))
    IN  IF target_events # <<>>
        THEN Ok(<<target_events[1].start_time,
                  target_events[1].start_time + duration_minutes>>)
        ELSE Err(NotFound)

\* Specification SpecNext: find_next_event_time on every list of at most
\* MaxLen events, in any order, with two summaries, starts at 09:00 and
\* 10:00 and lengths of 30 and 60 minutes.

NextShapes ==
    [summary : {Str_AB, Str_CD},
     start_time : {Day(16) + At(9, 0), Day(16) + At(10, 0)},
     length : {30, 60}]

NextLabels == {Str_AB, Str_CD, <<"A", ":">>}

NextDurations == {0, 30, 60}

NextNows == {Day(16) + At(8, 7), Day(16) + At(9, 30)}

InitNext ==
    /\ events = <<>>
    /\ nextId = 1
    /\ opCount = 0
    /\ now \in NextNows
    /\ last = NoRun
    /\ \E n \in 0..MaxLen : \E f \in [1..n -> NextShapes] :
       \E label \in NextLabels, d \in NextDurations :
          inp = [tag |-> "next",
                 events |-> [i \in 1..n |->
                                ScheduleEvent(i, f[i].start_time,
                                              f[i].start_time + f[i].length,
                                              f[i].summary, None, None, TRUE)],
                 project_task |-> label, duration_minutes |-> d]
    /\ out = Pending

ApplyNext ==
    /\ inp.tag = "next"
    /\ out = Pending
    /\ out' = [tag |-> "next",
               value |-> find_next_event_time(inp.events, inp.project_task,
                                              inp.duration_minutes, now)]
    /\ UNCHANGED <<events, nextId, opCount, last, now, inp>>

NextNext == ApplyNext

SpecNext == InitNext /\ [][NextNext]_vars

\* the events of the input that qualify
Qualifying ==
    {e \in Range(inp.events) :
        /\ e.summary = inp.project_task
        /\ e.start_time >= now
        /\ e.end_time - e.start_time > inp.duration_minutes}

\* C16: the finder returns (event.start, event.start + duration) only for
\* an event whose summary equals the label, whose start is >= now and whose
\* span is strictly longer than the duration; when no event qualifies it
\* returns a NotFound error.
C16_NextQualifies ==
    inp.tag = "next" /\ out.tag = "next" =>
        IF Qualifying = {}
        THEN ~out.value.ok /\ out.value.err = NotFound
        ELSE /\ out.value.ok
             /\ \E e \in Qualifying :
                    out.value.value = <<e.start_time, e.start_time + inp.duration_minutes>>

\* a label that matches, a start not before now and a span equal to the
\* duration: the event does not qualify and nothing is found
C16_Witness ==
    /\ inp.tag = "next" /\ out.tag = "next"
    /\ \E e \in Range(inp.events) :
          /\ e.summary = inp.project_task
          /\ e.start_time >= now
          /\ e.end_time - e.start_time = inp.duration_minutes
    /\ inp.duration_minutes > 0
    /\ ~out.value.ok

\* ---------------------------------------------------------------------
\* The diff of two snapshots

\* impl PartialEq for ScheduleEvent: two events are equal when their ids are
EventEq(a, b) == a.id = b.id

\* HashMap<&str, &ScheduleEvent>: the event of the list with this id
EventMap(evs, id) == CHOOSE e \in Range(evs) : e.id = id

\* fn print_event_diff(before, after): the ids printed with "-", "+" and "~"
print_event_diff(before, after) ==
    [removed  |-> {id \in Ids(before) : id \notin Ids(after)},
     added    |-> {id \in Ids(after) : id \notin Ids(before)},
     modified |-> {id \in Ids(after) :
                      /\ id \in Ids(before)
                      /\ ~EventEq(EventMap(before, id), EventMap(after, id))}]

\* Specification SpecDiff: print_event_diff on every pair of snapshots with
\* ids 1..MaxLen, each id absent or given one of three shapes.

Absent == [present |-> FALSE]

DiffShapes ==
    {[present |-> TRUE, end_time |-> Day(16) + At(10, 0), note |-> None],
     [present |-> TRUE, end_time |-> Day(16) + At(11, 0), note |-> None],
     [present |-> TRUE, end_time |-> Day(16) + At(10, 0), note |-> Some(Str_n)]}

\* the list of the ids that f gives a shape, in id order
Snapshot(f) ==
    LET all == [i \in DOMAIN f |->
                   IF f[i].present
                   THEN ScheduleEvent(i, Day(16) + At(9, 0), f[i].end_time, Str_AB,
                                      f[i].note, None, TRUE)
                   ELSE Absent]
    IN  SelectSeq(all, LAMBDA e : e # Absent)

InitDiff ==
    /\ events = <<>>
    /\ nextId = 1
    /\ opCount = 0
    /\ now = 0
    /\ last = NoRun
    /\ \E f, g \in [1..MaxLen -> DiffShapes \cup {Absent}] :
          inp = [tag |-> "diff", before |-> Snapshot(f), after |-> Snapshot(g)]
    /\ out = Pending

ApplyDiff ==
    /\ inp.tag = "diff"
    /\ out = Pending
    /\ out' = [tag |-> "diff", value |-> print_event_diff(inp.before, inp.after)]
    /\ UNCHANGED <<events, nextId, opCount, last, now, inp>>

NextDiff == ApplyDiff

SpecDiff == InitDiff /\ [][NextDiff]_vars

\* the ids present in both snapshots with a field that differs
Differing ==
    {id \in Ids(inp.before) \cap Ids(inp.after) :
        LET b == EventMap(inp.before, id)
            a == EventMap(inp.after, id)
        IN  \/ b.start_time # a.start_time
            \/ b.end_time # a.end_time
            \/ b.summary # a.summary
            \/ b.note # a.note
            \/ b.location # a.location
            \/ b.booked # a.booked}

\* C17: the diff reports as removed exactly the ids only in before, as
\* added exactly the ids only in after, and as modified exactly the ids in
\* both whose start, end, summary, note, location or booked flag differs.
C17_DiffClassifies ==
    inp.tag = "diff" /\ out.tag = "diff" =>
        /\ out.value.removed = Ids(inp.before) \ Ids(inp.after)
        /\ out.value.added = Ids(inp.after) \ Ids(inp.before)
        /\ out.value.modified = Differing

\* ---------------------------------------------------------------------
\* The program: one action per command; each action is one run of main,
\* from load_events to save_events.

\* the zone of the runs
RunZone == UTC

\* the clock values of the runs: 2024-03-16T10:07Z
Nows == {DaysFromCivil(2024, 3, 16) * MinutesPerDay + 10 * MinutesPerHour + 7}

FirstNow == CHOOSE t \in Nows : \A u \in Nows : t <= u

\* command-line inputs
AddTimespans ==
    {FormatSpan(NaiveTime(9, 0, 0), NaiveTime(12, 0, 0)),
     FormatSpan(NaiveTime(10, 0, 0), NaiveTime(11, 0, 0)),
     FormatSpan(NaiveTime(9, 0, 0), NaiveTime(10, 0, 0)),
     FormatSpan(NaiveTime(10, 0, 0), NaiveTime(10, 0, 0)),
     FormatSpan(NaiveTime(11, 0, 0), NaiveTime(12, 0, 0)),
     FormatSpan(NaiveTime(22, 0, 0), NaiveTime(23, 50, 0))}

AddDates == {None, Some(FormatDate(2024, 3, 16))}

\* two labels, and one without a colon
ProjectTasks == {Str_AB, Str_CD, <<"x">>}

Notes == {None}

Locations == {None}

BookedFlags == {TRUE}

QuickMinutes == {None, Some(0)}

\* --timespan of todo: the default and a window of one hour
TodoTimespans ==
    {FormatSpan(NaiveTime(8, 0, 0), NaiveTime(17, 0, 0)),
     FormatSpan(NaiveTime(10, 0, 0), NaiveTime(11, 0, 0))}

\* --timespan of set
SetTimespans == {None, Some(FormatSpan(NaiveTime(10, 0, 0), NaiveTime(11, 0, 0)))}

\* --timespan of delete: an hour, an empty span, and a malformed one
DeleteTimespans ==
    {None, Some(FormatSpan(NaiveTime(10, 0, 0), NaiveTime(11, 0, 0))),
     Some(FormatSpan(NaiveTime(10, 0, 0), NaiveTime(10, 0, 0))), Some(<<"x">>)}

\* every timespan of the command lines above
RunTimespans ==
    AddTimespans \cup TodoTimespans
        \cup {ts[1] : ts \in (SetTimespans \cup DeleteTimespans) \ {None}}

\* the dates parse_datetime_range is given: those of add, which are also the
\* dates of the events that set and delete take their date from
RunDates == AddDates

\* parse_datetime_range with the rounding and the zone of the runs, for
\* every clock value, date and timespan above
ParsedRanges ==
    [t \in Nows |->
        [date \in RunDates |->
            [timespan \in RunTimespans |->
                parse_datetime_range(timespan, date, rounding, RunZone, t)]]]

\* parse_datetime_range as the runs call it
parse_range(timespan, date, t) == ParsedRanges[t][date][timespan]

Init ==
    /\ events = <<>>
    /\ nextId = 1
    /\ opCount = 0
    /\ now = FirstNow
    /\ last = NoRun
    /\ inp = NoInput
    /\ out = Pending

\* a run that fails before anything is saved
Failed(op, kind) ==
    /\ last' = [op |-> op, outcome |-> kind, new |-> None, before |-> events,
                overlaps |-> FALSE]
    /\ UNCHANGED <<events, nextId>>

\* the common tail of add and quickadd: build the event, resolve overlaps,
\* ask for confirmation, save
InsertEvent(op, start_time, end_time, project_task, note, location, booked) ==
    \E parts \in {split_once(project_task, ":")} :
        IF parts = None THEN Failed(op, InvalidInput)
        ELSE \E event \in {ScheduleEvent(nextId, start_time, end_time,
                                          trim(parts[1][1]) \o <<":">> \o trim(parts[1][2]),
                                          note, location, booked)} :
             \E r \in {split_overlapping_events(events, event, nextId + 1)} :
             \E confirmed \in BOOLEAN :
                 IF confirmed
                 THEN /\ events' = r.events
                      /\ nextId' = r.next_id
                      /\ last' = [op |-> op, outcome |-> "saved", new |-> event,
                                  before |-> events, overlaps |-> r.overlaps_exist]
                 ELSE /\ last' = [op |-> op, outcome |-> "declined", new |-> event,
                                  before |-> events, overlaps |-> r.overlaps_exist]
                      /\ UNCHANGED <<events, nextId>>

\* Commands::Add
Add ==
    \E t \in Nows :
        /\ opCount < MaxOps
        /\ t >= now
        /\ now' = t
        /\ opCount' = opCount + 1
        /\ \E range \in {parse_range(timespan, date, t) :
                           timespan \in AddTimespans, date \in AddDates} :
               IF ~range.ok THEN Failed("add", range.err)
               ELSE \E project_task \in ProjectTasks, note \in Notes,
                       location \in Locations, booked \in BookedFlags :
                        InsertEvent("add", range.value[1], range.value[2], project_task,
                                    note, location, booked)
        /\ UNCHANGED <<inp, out>>

\* Commands::Quickadd
Quickadd ==
    \E minutes \in QuickMinutes, forward \in BOOLEAN, t \in Nows :
        /\ opCount < MaxOps
        /\ t >= now
        /\ now' = t
        /\ opCount' = opCount + 1
        /\ \E duration_minutes \in
                  {round_duration_up(IF minutes = None THEN rounding ELSE minutes[1], rounding)} :
           \E rounded \in
                  {with_time_unwrap(DateTime(t, UTC),
                       round_time_to_interval(time(DateTime(t, UTC)), rounding, ~forward)).value.utc} :
           \E project_task \in ProjectTasks, note \in Notes, location \in Locations :
               IF forward
               THEN InsertEvent("quickadd", rounded, rounded + duration_minutes,
                                project_task, note, location, TRUE)
               ELSE InsertEvent("quickadd", rounded - duration_minutes, rounded,
                                project_task, note, location, TRUE)
        /\ UNCHANGED <<inp, out>>

\* a run that ends without a result and yet empties the stored set
UnsavedEmptied(op, outcome, why) ==
    /\ last' = [op |-> op, outcome |-> outcome, new |-> None, before |-> events,
                overlaps |-> FALSE, why |-> why]
    /\ events' = <<>>
    /\ UNCHANGED nextId

\* a run that ends without saving: outcome is the ErrorKind main returns, or
\* "returned" when main prints a message and returns Ok(()), or "hang" when
\* the run never ends; why names the condition the run met
Unsaved(op, outcome, why) ==
    /\ last' = [op |-> op, outcome |-> outcome, new |-> None, before |-> events,
                overlaps |-> FALSE, why |-> why]
    /\ UNCHANGED <<events, nextId>>

\* inputs of todo: --minutes, --in-project-task
TodoMinutes == {None, Some(0)}

InProjectTasks == {None, Some(Str_AB)}

TodoTasks == {Str_AB}

\* lines 1323-1349: the todo is built, shown, confirmed and saved
InsertTodo(start_time, end_time, project_task, label, duration_minutes) ==
    \E parts \in {split_once(project_task, ":")} :
        IF parts = None THEN Unsaved("todo", InvalidInput, "label")
        ELSE \E event \in {ScheduleEvent(nextId, start_time, end_time,
                                          trim(parts[1][1]) \o <<":">> \o trim(parts[1][2]),
                                          None, None, FALSE)} :
             \E r \in {split_overlapping_events(events, event, nextId + 1)} :
             \E confirmed \in BOOLEAN :
                 IF confirmed
                 THEN /\ events' = r.events
                      /\ nextId' = r.next_id
                      /\ last' = [op |-> "todo", outcome |-> "saved", new |-> event,
                                  before |-> events, overlaps |-> r.overlaps_exist,
                                  label |-> label, duration |-> duration_minutes]
                 ELSE /\ last' = [op |-> "todo", outcome |-> "declined", new |-> event,
                                  before |-> events, overlaps |-> r.overlaps_exist,
                                  label |-> label, duration |-> duration_minutes]
                      /\ UNCHANGED <<events, nextId>>

\* Commands::Todo
Todo ==
    \E minutes \in TodoMinutes, in_project_task \in InProjectTasks, t \in Nows :
        /\ opCount < MaxOps
        /\ t >= now
        /\ now' = t
        /\ opCount' = opCount + 1
        /\ \E duration_minutes \in {IF minutes = None THEN rounding * 2 ELSE minutes[1]} :
           IF in_project_task # None
           THEN \E found \in {find_next_event_time(events, in_project_task[1],
                                                   duration_minutes, t)} :
                    IF ~found.ok THEN Unsaved("todo", found.err, "no match")
                    ELSE \E project_task \in TodoTasks :
                             InsertTodo(found.value[1], found.value[2], project_task,
                                        in_project_task, duration_minutes)
           ELSE \E timespan \in TodoTimespans :
                \E slot \in {FreeSlotIn(events, parse_range(timespan, None, t),
                                        duration_minutes, rounding, t)} :
                    IF slot.ok
                    THEN \E project_task \in TodoTasks :
                             InsertTodo(slot.value[1], slot.value[2], project_task,
                                        None, duration_minutes)
                    ELSE IF slot.err = Hang THEN Unsaved("todo", "hang", "no end")
                    ELSE Unsaved("todo", "returned",
                                 IF slot.err = Other THEN "no slot" ELSE "window")
        /\ UNCHANGED <<inp, out>>

\* NaiveDate to (year, month, day)
CivilFromDays(days) ==
    LET z   == days + 719468
        era == z \div 146097
        doe == z - era * 146097
        yoe == (doe - doe \div 1460 + doe \div 36524 - doe \div 146096) \div 365
        doy == doe - (365 * yoe + yoe \div 4 - yoe \div 100)
        mp  == (5 * doy + 2) \div 153
        d   == doy - (153 * mp + 2) \div 5 + 1
        m   == IF mp < 10 THEN mp + 3 ELSE mp - 9
    IN  <<yoe + era * 400 + (IF m <= 2 THEN 1 ELSE 0), m, d>>

\* format("%Y-%m-%d") of a NaiveDate
FormatNaiveDate(days) ==
    LET c == CivilFromDays(days) IN FormatDate(c[1], c[2], c[3])

\* a remove that leaves the list as it was
RemoveNothing(s, index) == s

\* Vec::remove(index)
Remove(s, index) == SubSeq(s, 1, index - 1) \o SubSeq(s, index + 1, Len(s))

\* iter().position(|event| event.id == id)
Position(evs, id) ==
    LET found == {i \in DOMAIN evs : evs[i].id = id}
    IN  IF found = {} THEN None ELSE Some(CHOOSE i \in found : \A j \in found : i <= j)

\* an id that no event has
UnknownId == 0

\* inputs of set: --location, --note, --booked, --date
SetLocations == {None}

SetNotes == {None}

SetBooked == {None, Some(TRUE)}

SetDates == {None}

\* lines 1399-1412: the new range of the event
SetRange(original_event, timespan, date, utc_now) ==
    IF date # None
    THEN parse_range(
             IF timespan # None THEN timespan[1]
             ELSE FormatSpan(time(DateTime(original_event.start_time, RunZone)),
                             time(DateTime(original_event.end_time, RunZone))),
             date, utc_now)
    ELSE IF timespan # None
    THEN parse_range(
             timespan[1],
             Some(FormatNaiveDate(date_naive(DateTime(original_event.start_time, RunZone)))),
             utc_now)
    ELSE Ok(<<original_event.start_time, original_event.end_time>>)

\* Commands::Set
Set ==
    \E id \in Ids(events) \cup {UnknownId}, t \in Nows :
        /\ opCount < MaxOps
        /\ t >= now
        /\ now' = t
        /\ opCount' = opCount + 1
        /\ \E event_index \in {Position(events, id)} :
           IF event_index = None THEN Unsaved("set", NotFound, "unknown id")
           ELSE \E original_event \in {events[event_index[1]]} :
                \E timespan \in SetTimespans, date \in SetDates :
                \E range \in {SetRange(original_event, timespan, date, t)} :
                    IF ~range.ok THEN Unsaved("set", range.err, "range")
                    ELSE \E location \in SetLocations, note \in SetNotes,
                            booked \in SetBooked :
                         \E modified_event \in
                                {[original_event EXCEPT
                                    !.location = IF location = None THEN @
                                                 ELSE IF location[1] = <<>> THEN None
                                                 ELSE location,
                                    !.note = IF note = None THEN @
                                             ELSE IF note[1] = <<>> THEN None ELSE note,
                                    !.booked = IF booked = None THEN @ ELSE booked[1],
                                    !.start_time = range.value[1],
                                    !.end_time = range.value[2]]} :
                         IF /\ location = None /\ note = None /\ booked = None
                            /\ range.value = <<original_event.start_time,
                                               original_event.end_time>>
                         THEN Unsaved("set", "returned", "no change")
                         ELSE \E rest \in {Remove(events, event_index[1])} :
                              \E r \in {split_overlapping_events(rest, modified_event,
                                                                  nextId)} :
                              \E confirmed \in BOOLEAN :
                                  IF confirmed
                                  THEN /\ events' = r.events
                                       /\ nextId' = r.next_id
                                       /\ last' = [op |-> "set", outcome |-> "saved",
                                                   new |-> modified_event,
                                                   before |-> events,
                                                   overlaps |-> r.overlaps_exist,
                                                   original |-> original_event,
                                                   nid |-> nextId]
                                  ELSE /\ last' = [op |-> "set", outcome |-> "declined",
                                                   new |-> modified_event,
                                                   before |-> events,
                                                   overlaps |-> r.overlaps_exist,
                                                   original |-> original_event,
                                                   nid |-> nextId]
                                       /\ UNCHANGED <<events, nextId>>
        /\ UNCHANGED <<inp, out>>

\* the parts of the event outside the removed range, under fresh ids
Remainders(original_event, start_remove, end_remove, nid) ==
    LET head == IF start_remove > original_event.start_time
                THEN <<[original_event EXCEPT !.id = nid, !.end_time = start_remove]>>
                ELSE <<>>
        tail == IF end_remove < original_event.end_time
                THEN <<[original_event EXCEPT !.id = nid + Len(head),
                                              !.start_time = end_remove]>>
                ELSE <<>>
    IN  head \o tail

\* Ok(true) of delete_event followed by save_events: the list is stored
Deleted(evs, nid, original_event, removed) ==
    /\ events' = evs
    /\ nextId' = nid
    /\ last' = [op |-> "delete", outcome |-> "saved", new |-> None, before |-> events,
                overlaps |-> FALSE, why |-> "deleted",
                original |-> original_event, removed |-> removed]

\* fn delete_event(events, id, timespan, rounding, timezone) and what main
\* does with its result: Err(e) is returned, Ok(false) saves nothing,
\* Ok(true) saves
delete_event(id, timespan, confirmed, utc_now) ==
    \E event_index \in {Position(events, id)} :
        IF event_index = None THEN Unsaved("delete", "returned", "unknown id")
        ELSE \E original_event \in {events[event_index[1]]},
                rest \in {Remove(events, event_index[1])} :
             IF timespan = None
             THEN IF ~confirmed THEN Unsaved("delete", "declined", "declined")
                  ELSE Deleted(rest, nextId, original_event, None)
             ELSE \E event_date \in
                        {FormatNaiveDate(original_event.start_time \div MinutesPerDay)} :
                  \E range \in {parse_range(timespan[1], Some(event_date), utc_now)} :
                      IF ~range.ok THEN Unsaved("delete", range.err, "range")
                      ELSE IF \/ range.value[1] >= original_event.end_time
                              \/ range.value[2] <= original_event.start_time
                      THEN Unsaved("delete", "returned", "no overlap")
                      ELSE IF ~confirmed THEN Unsaved("delete", "declined", "declined")
                      ELSE \E modified_events \in
                                 {Remainders(original_event, range.value[1],
                                             range.value[2], nextId)} :
                           \E sorted \in {StableSort(ByStart, rest \o modified_events)} :
                           \E merged \in {merge_events(sorted)} :
                               Deleted(merged, nextId + Len(modified_events), original_event,
                                       Some(range.value))

\* Commands::Delete
Delete ==
    \E id \in Ids(events) \cup {UnknownId}, timespan \in DeleteTimespans,
       confirmed \in BOOLEAN, t \in Nows :
        /\ opCount < MaxOps
        /\ t >= now
        /\ now' = t
        /\ opCount' = opCount + 1
        /\ delete_event(id, timespan, confirmed, t)
        /\ UNCHANGED <<inp, out>>

\* fn cleanup_events(events, days)
cleanup_events(evs, days, utc_now) ==
    SelectSeq(evs, LAMBDA event : event.end_time > utc_now - days * MinutesPerDay)

CleanupDays == {0}

\* Commands::Cleanup: the events kept are saved, whether or not any went
Cleanup ==
    \E days \in CleanupDays, t \in Nows :
        /\ opCount < MaxOps
        /\ t >= now
        /\ now' = t
        /\ opCount' = opCount + 1
        /\ events' = cleanup_events(events, days, t)
        /\ last' = [op |-> "cleanup", outcome |-> "saved", new |-> None, before |-> events,
                    overlaps |-> FALSE, why |-> "cleaned"]
        /\ UNCHANGED <<nextId, inp, out>>

Next == Add \/ Quickadd \/ Todo \/ Set \/ Delete \/ Cleanup

Spec == Init /\ [][Next]_vars

\* ---------------------------------------------------------------------
\* The report

\* str::starts_with
starts_with(s, prefix) ==
    Len(s) >= Len(prefix) /\ SubSeq(s, 1, Len(prefix)) = prefix

\* Datelike::year and Datelike::month of a DateTime<Tz>
year(dt) == CivilFromDays(date_naive(dt))[1]
month(dt) == CivilFromDays(date_naive(dt))[2]

\* the sum of end_time - start_time over a list of events
RECURSIVE SumDurations(_)
SumDurations(evs) ==
    IF evs = <<>> THEN 0
    ELSE (Head(evs).end_time - Head(evs).start_time) + SumDurations(Tail(evs))

\* a target is written in hundredths of an hour; (target * 60.0) as i64
\* cuts the minutes towards zero
TargetWithoutScaling(target) == target \div 100

TargetMinutes(target) == (target * MinutesPerHour) \div 100

Overrun == "Overrun"
Underrun == "Underrun"

\* the last block of generate_report: the line printed for a target.  The
\* percentage is the exact quotient num / den that the f64 division rounds.
Variance(sum_total_duration, target) ==
    LET Line(target_duration, diff) ==
            [target_duration |-> target_duration,
             diff |-> diff,
             diff_str |-> IF diff > 0 THEN Overrun ELSE Underrun,
             percentage_diff |-> IF target_duration # 0
                                 THEN [num |-> diff * 100, den |-> target_duration]
                                 ELSE [num |-> 0, den |-> 1]]
        For(target_duration) == Line(target_duration, sum_total_duration - target_duration)
    IN  For(TargetMinutes(target))

\* fn generate_report: what it prints, as the filtered events, the three
\* sums and the target line
generate_report(evs, project, timezone, in_month, in_year, target_time, utc_now) ==
    LET Printed(project_events) ==
            IF project_events = <<>> THEN [found |-> FALSE]
            ELSE [found |-> TRUE,
                  project_events |-> project_events,
                  sum_total_duration |-> SumDurations(project_events),
                  planned_time |-> SumDurations(SelectSeq(project_events, LAMBDA e : ~e.booked)),
                  booked_time |-> SumDurations(SelectSeq(project_events, LAMBDA e : e.booked)),
                  target |-> IF target_time = None THEN None
                             ELSE Some(Variance(SumDurations(project_events), target_time[1]))]
        In(y, m) ==
            Printed(SelectSeq(evs, LAMBDA event :
                        /\ starts_with(event.summary, project \o <<":">>)
                        /\ year(DateTime(event.start_time, timezone)) = y
                        /\ month(DateTime(event.start_time, timezone)) = m))
    IN  In(IF in_year = None THEN year(DateTime(utc_now, timezone)) ELSE in_year[1],
           IF in_month = None THEN month(DateTime(utc_now, timezone)) ELSE in_month[1])

\* Specification SpecReport: generate_report on every sub-list of five
\* stored events, two projects, two zones, the month given or not, and a
\* target given or not.

Str_AC == <<"A", ":", "C">>

\* A:B and A:C on 16 March, C:D on 16 March, A:B on 2 April, and A:B at
\* 2024-03-31T22:30Z, which is 1 April in Europe/Berlin
ReportEvents ==
    << ScheduleEvent(1, Day(16) + At(9, 0), Day(16) + At(10, 0), Str_AB, None, None, TRUE),
       ScheduleEvent(2, Day(16) + At(10, 0), Day(16) + At(14, 30), Str_AC, None, None, FALSE),
       ScheduleEvent(3, Day(16) + At(15, 0), Day(16) + At(16, 0), Str_CD, None, None, TRUE),
       ScheduleEvent(4, Day(31) + At(22, 30), Day(31) + At(23, 30), Str_AB, None, None, FALSE),
       ScheduleEvent(5, Day(33) + At(9, 0), Day(33) + At(10, 0), Str_AB, None, None, TRUE) >>

ReportProjects == {<<"A">>, <<"C">>}
ReportMonths == {None, Some(3), Some(4)}
ReportTargets == {None, Some(0), Some(1), Some(25), Some(100), Some(500), Some(550), Some(600)}

InitReport ==
    /\ events = <<>>
    /\ nextId = 1
    /\ opCount = 0
    /\ now = ParseNow
    /\ last = NoRun
    /\ \E chosen \in SUBSET (1..Len(ReportEvents)), project \in ReportProjects,
          timezone \in Zones, in_month \in ReportMonths, target \in ReportTargets :
          inp = [tag |-> "report",
                 events |-> SelectSeq(ReportEvents, LAMBDA e : e.id \in chosen),
                 project |-> project, timezone |-> timezone,
                 month |-> in_month, year |-> None, target |-> target]
    /\ out = Pending

ApplyReport ==
    /\ inp.tag = "report"
    /\ out = Pending
    /\ out' = [tag |-> "report",
               value |-> generate_report(inp.events, inp.project, inp.timezone,
                                         inp.month, inp.year, inp.target, now)]
    /\ UNCHANGED <<events, nextId, opCount, last, now, inp>>

NextReport == ApplyReport

SpecReport == InitReport /\ [][NextReport]_vars

\* a report that printed a target line
Reported ==
    /\ inp.tag = "report" /\ out # Pending
    /\ out.value.found /\ out.value.target # None

TargetLine == out.value.target[1]

\* the filtered events, chosen from the input by the words of the spec
Filtered ==
    SelectSeq(inp.events, LAMBDA e :
        /\ e.summary[1] = inp.project[1] /\ e.summary[2] = ":"
        /\ CivilFromDays((e.start_time + offset_from_utc(inp.timezone, e.start_time))
                         \div MinutesPerDay)[2]
             = (IF inp.month = None THEN 3 ELSE inp.month[1]))

\* C21: with total the sum of the durations of the filtered events and a
\* target given, diff = total - target (in minutes: 100 * diff =
\* 100 * total - 60 * target, the target being in hundredths of an hour);
\* an overrun is reported iff diff > 0 and an underrun iff diff < 0; the
\* percentage is diff / target * 100, and 0 when the target is exactly zero.
C21_ReportVariance ==
    Reported =>
        LET total  == SumDurations(Filtered)
            diff   == 100 * total - MinutesPerHour * inp.target[1]
            target == MinutesPerHour * inp.target[1]
            p      == TargetLine.percentage_diff
        IN  /\ 100 * TargetLine.diff = diff
            /\ (TargetLine.diff_str = Overrun) <=> (diff > 0)
            /\ (TargetLine.diff_str = Underrun) <=> (diff < 0)
            /\ IF target = 0 THEN p.num = 0
               ELSE p.num * target = diff * 100 * p.den

\* a total of 5h30m reported against a target of 5h
FiveThirtyAgainstFive ==
    /\ Reported
    /\ out.value.sum_total_duration = 5 * MinutesPerHour + 30
    /\ inp.target = Some(500)

\* the percentage in hundredths of a percent, rounded to the nearest
Hundredths(p) == (2 * 100 * p.num + p.den) \div (2 * p.den)

\* C22 (amended): a total of 5h30m against a 5h target is reported as an
\* overrun of 30 minutes with a percentage of 10.0%.
C22_VarianceExample ==
    FiveThirtyAgainstFive =>
        /\ TargetLine.diff_str = Overrun
        /\ TargetLine.diff = 30
        /\ Hundredths(TargetLine.percentage_diff) = 1000

\* C22 witness: the report of 5h30m against 5h has been printed.
C22_Witness == FiveThirtyAgainstFive /\ TargetLine.diff = 30

\* C22 (as claimed): ... an overrun of 30 minutes with a percentage of
\* +9.09%.
C22_AsClaimed ==
    FiveThirtyAgainstFive =>
        /\ TargetLine.diff_str = Overrun
        /\ TargetLine.diff = 30
        /\ Hundredths(TargetLine.percentage_diff) = 909

\* ---------------------------------------------------------------------
\* split_overlapping_events on its own

\* Specification SpecSplit: split_overlapping_events on every sub-list of
\* five stored events that do not overlap and every incoming event with
\* end > start over eight ranges and two attribute tuples.  The stored
\* events are those the program can hold: with end > start, empty
\* ("13:00-13:00"), or ending at the midnight that starts their day
\* ("22:00-23:50" rounded up).

Stored(id, start_time, end_time, summary) ==
    ScheduleEvent(id, start_time, end_time, summary, None, None, TRUE)

SplitStored ==
    << Stored(1, Day(16) + At(9, 0), Day(16) + At(10, 0), Str_AB),
       Stored(2, Day(16) + At(10, 0), Day(16) + At(12, 0), Str_CD),
       Stored(3, Day(16) + At(12, 0), Day(16) + At(13, 0), Str_AB),
       Stored(4, Day(16) + At(13, 0), Day(16) + At(13, 0), Str_CD),
       Stored(5, Day(16) + At(22, 0), Day(16) + At(0, 0), Str_AB) >>

SplitRanges ==
    {<<At(9, 0), At(10, 0)>>, <<At(9, 0), At(13, 0)>>, <<At(10, 0), At(11, 0)>>,
     <<At(11, 0), At(12, 0)>>, <<At(11, 0), At(14, 0)>>, <<At(8, 0), At(9, 0)>>,
     <<At(21, 0), At(22, 0)>>, <<At(21, 0), At(23, 0)>>}

SplitSummaries == {Str_AB, Str_CD}

InitSplit ==
    /\ events = <<>>
    /\ nextId = 1
    /\ opCount = 0
    /\ now = 0
    /\ last = NoRun
    /\ \E chosen \in SUBSET (1..Len(SplitStored)), range \in SplitRanges,
          summary \in SplitSummaries :
          inp = [tag |-> "split",
                 events |-> SelectSeq(SplitStored, LAMBDA e : e.id \in chosen),
                 new_event |-> Stored(Len(SplitStored) + 1, Day(16) + range[1],
                                      Day(16) + range[2], summary)]
    /\ out = Pending

ApplySplit ==
    /\ inp.tag = "split"
    /\ out = Pending
    /\ out' = [tag |-> "split",
               value |-> split_overlapping_events(inp.events, inp.new_event,
                                                  inp.new_event.id + 1)]
    /\ UNCHANGED <<events, nextId, opCount, last, now, inp>>

NextSplit == ApplySplit

SpecSplit == InitSplit /\ [][NextSplit]_vars

SplitDone == inp.tag = "split" /\ out # Pending

\* the instants at which the cover of a set can change
Boundaries ==
    LET all == Range(inp.events) \cup Range(out.value.events) \cup {inp.new_event}
    IN  {e.start_time : e \in all} \cup {e.end_time : e \in all}

\* the attributes of the events of evs that cover the instant t
AttrsAt(evs, t) ==
    {GroupKey(e) : e \in {x \in Range(evs) : x.start_time <= t /\ t < x.end_time}}

\* C28: for an existing set without overlaps and an incoming event with
\* end > start, the instants covered by the result are those covered by
\* the existing set united with the incoming range; an instant outside the
\* incoming range keeps the attributes it had, an instant inside has the
\* incoming event's.  The cover only changes at a start or an end, so the
\* instants checked are those.
C28_CoveragePreserved ==
    SplitDone =>
        \A t \in Boundaries :
            AttrsAt(out.value.events, t) =
                IF inp.new_event.start_time <= t /\ t < inp.new_event.end_time
                THEN {GroupKey(inp.new_event)}
                ELSE AttrsAt(inp.events, t)

\* ---------------------------------------------------------------------
\* Properties of the program

\* the last run inserted last.new into last.before and saved the result
Inserted == last.op \in {"add", "quickadd"} /\ last.outcome = "saved"

\* the list the last run handed to merge_events
LastResolved == Resolved(last.before, last.new, last.new.id + 1)

\* C1: no two distinct events of the stored set satisfy
\* A.start < B.end && A.end > B.start, whatever events were inserted.
C1_NoOverlap ==
    \A i, j \in DOMAIN events : i # j => ~Overlap(events[i], events[j])

\* an event with the attributes of x that ends where x starts or starts
\* where x ends
Touches(y, x) ==
    /\ y.id # x.id
    /\ SameAttrs(y, x)
    /\ (y.end_time = x.start_time \/ y.start_time = x.end_time)

\* some existing event with the attributes of new ends at new's start,
\* starts at new's end, or overlaps new and reaches beyond it
TouchedByExisting(before, new) ==
    \E e \in Range(before) :
        /\ SameAttrs(e, new)
        /\ \/ e.end_time = new.start_time
           \/ e.start_time = new.end_time
           \/ Overlap(new, e) /\ (e.start_time < new.start_time \/ e.end_time > new.end_time)

\* C2 as amended: the inserted event is in the result unmodified unless an
\* existing event with identical attributes touches it (ends at its start,
\* starts at its end, or overlaps it and reaches beyond it); then the
\* result holds no event under the new id or holds one with a wider range.
C2_NewEventPriority ==
    Inserted /\ ~TouchedByExisting(last.before, last.new)
        => last.new \in Range(events)

C2_Witness ==
    /\ Inserted
    /\ last.overlaps
    /\ ~TouchedByExisting(last.before, last.new)
    /\ last.new \in Range(events)

\* C2 as claimed: the inserted event is in the result with its id, range
\* and attributes, whatever the existing set.
C2_AsClaimed == Inserted => last.new \in Range(events)

\* the case of C4: [10:00,11:00) inserted into the single event [09:00,12:00)
Today(h, m) == DaysFromCivil(2024, 3, 16) * MinutesPerDay + At(h, m)

SplitCase ==
    /\ Inserted
    /\ Len(last.before) = 1
    /\ last.before[1].start_time = Today(9, 0)
    /\ last.before[1].end_time = Today(12, 0)
    /\ last.new.start_time = Today(10, 0)
    /\ last.new.end_time = Today(11, 0)

RangeOf(e) == <<e.start_time, e.end_time>>

ThreeSegments ==
    /\ Len(events) = 3
    /\ RangeOf(events[1]) = <<Today(9, 0), Today(10, 0)>>
    /\ events[2] = last.new
    /\ RangeOf(events[3]) = <<Today(11, 0), Today(12, 0)>>
    /\ SameAttrs(events[1], last.before[1])
    /\ SameAttrs(events[3], last.before[1])
    /\ (events[1].end_time - events[1].start_time)
         + (events[2].end_time - events[2].start_time)
         + (events[3].end_time - events[3].start_time)
       = last.before[1].end_time - last.before[1].start_time

\* C4 as amended: the insertion yields exactly the three segments when the
\* new event's attributes differ from the existing event's; with identical
\* attributes the segments fuse into the single event [09:00,12:00) under
\* the id of the first fragment.
C4_SplitExample ==
    SplitCase =>
        IF SameAttrs(last.new, last.before[1])
        THEN /\ Len(events) = 1
             /\ RangeOf(events[1]) = <<Today(9, 0), Today(12, 0)>>
             /\ events[1].id = last.new.id + 1
        ELSE ThreeSegments

C4_Witness == SplitCase /\ ~SameAttrs(last.new, last.before[1]) /\ ThreeSegments

\* C4 as claimed: exactly three events, whatever the new event's attributes
C4_AsClaimed == SplitCase => ThreeSegments

\* C6 as amended: an existing event that does not overlap the incoming
\* event is in the result unchanged, unless an event of the resolved list
\* with identical attributes (the incoming event or a fragment) ends where
\* it starts or starts where it ends.
C6_PassThrough ==
    Inserted =>
        \A e \in Range(last.before) :
            /\ ~Overlap(last.new, e)
            /\ ~\E y \in Range(LastResolved) : Touches(y, e)
            => e \in Range(events)

C6_Witness ==
    /\ Inserted
    /\ last.overlaps
    /\ \E e \in Range(last.before) :
           /\ ~Overlap(last.new, e)
           /\ ~\E y \in Range(LastResolved) : Touches(y, e)
           /\ e \in Range(events)

\* C6 as claimed: every existing event that does not overlap the incoming
\* event is in the result unchanged.
C6_AsClaimed ==
    Inserted =>
        \A e \in Range(last.before) : ~Overlap(last.new, e) => e \in Range(events)

\* C7: every stored event has end > start, and every range that
\* parse_datetime_range returned to add has end > start.
C7_EndAfterStart ==
    /\ \A i \in DOMAIN events : events[i].end_time > events[i].start_time
    /\ last.op = "add" /\ last.outcome \in {"saved", "declined"}
           => last.new.end_time > last.new.start_time

\* the last run was a todo booked inside an event found by label
TodoInTask ==
    /\ last.op = "todo"
    /\ last.outcome \in {"saved", "declined"}
    /\ last.label # None

\* the events the run loaded that qualified for it
LoadedQualifying ==
    {e \in Range(last.before) :
        /\ e.summary = last.label[1]
        /\ e.start_time >= now
        /\ e.end_time > e.start_time + last.duration}

\* C15: when several stored events have the label as summary, start at or
\* after now and are longer than the duration, the todo gets the
\* sub-interval of the one with the smallest start time.
C15_NextPicksEarliest ==
    TodoInTask =>
        /\ LoadedQualifying # {}
        /\ \A e \in LoadedQualifying : last.new.start_time <= e.start_time
        /\ \E e \in LoadedQualifying : last.new.start_time = e.start_time
        /\ last.new.end_time = last.new.start_time + last.duration

\* two events with different starts qualified
C15_Witness ==
    /\ TodoInTask
    /\ \E e, f \in LoadedQualifying : e.start_time < f.start_time

\* the last run was a set that was applied
SetSaved == last.op = "set" /\ last.outcome = "saved"

\* the set changed the start or the end of the event
RangeChanged ==
    \/ last.new.start_time # last.original.start_time
    \/ last.new.end_time # last.original.end_time

\* the events the set loaded, without the one it modified
Others == SelectSeq(last.before, LAMBDA e : e.id # last.original.id)

\* C18 as amended: a set that is applied leaves the modified event in the
\* stored set under its original id, when it changes the start or the end
\* as much as when it changes only note, location or booked; the exception
\* is a modified event that an event with identical attributes touches
\* (ends at its start, starts at its end, or overlaps it and reaches beyond
\* it), which merge_events fuses with that event.
C18_SetKeepsId ==
    SetSaved /\ ~TouchedByExisting(Others, last.new) =>
        /\ last.new.id = last.original.id
        /\ last.new \in Range(events)

\* a set to a new range, stored under the original id
C18_Witness ==
    /\ SetSaved
    /\ RangeChanged
    /\ ~TouchedByExisting(Others, last.new)
    /\ \E e \in Range(events) :
          /\ e.id = last.original.id
          /\ e.start_time = last.new.start_time
          /\ e.end_time = last.new.end_time

\* C18 as claimed: after a set that changes the start or the end the
\* original id no longer appears and the modified event is stored under
\* another id; after a set that changes only note, location or booked the
\* event is stored under its original id.
C18_AsClaimed ==
    SetSaved =>
        IF RangeChanged
        THEN /\ last.original.id \notin Ids(events)
             /\ \E e \in Range(events) :
                    /\ e.start_time = last.new.start_time
                    /\ e.end_time = last.new.end_time
        ELSE \E e \in Range(events) :
                 e = [last.new EXCEPT !.id = last.original.id]

\* the last run failed: main returned an error, or printed why nothing can
\* be done and returned, or never returned
RunFailed ==
    /\ last.op \in {"add", "quickadd", "todo", "set", "delete"}
    /\ last.outcome \in {InvalidInput, NotFound, Other, "returned", "hang"}

\* the last run saved the set it got from the resolve and merge pipeline
SavedResolved ==
    /\ last.op \in {"add", "quickadd", "todo"} =>
           events = merge_events(Resolved(last.before, last.new, last.new.id + 1))
    /\ last.op = "set" =>
           events = merge_events(Resolved(Others, last.new, last.nid))

\* C19: whenever add, quickadd, todo, set or delete fails, the stored set
\* is exactly the set that was loaded; a changed set is stored only as the
\* result of the whole resolve and merge pipeline.
C19_NoPartialMutation ==
    /\ RunFailed => events = last.before
    /\ last.op \in {"add", "quickadd", "todo", "set"} /\ events # last.before
           => last.outcome = "saved" /\ SavedResolved

\* a set that names an unknown id while events are stored
C19_Witness ==
    /\ RunFailed
    /\ last.op = "set"
    /\ last.outcome = NotFound
    /\ last.before # <<>>
    /\ events = last.before

\* the condition the last run met, when it met one
Why == IF "why" \in DOMAIN last THEN last.why ELSE "none"

\* C20: a set or a delete that names an id absent from the event set, a
\* todo for which no free slot exists in the window and a todo for which no
\* matching upcoming event exists each end with a NotFound error returned
\* to the caller, not with a success outcome.
C20_NotFoundIsTyped ==
    /\ last.op \in {"set", "delete"} /\ Why = "unknown id" => last.outcome = NotFound
    /\ last.op = "todo" /\ Why = "no slot" => last.outcome = NotFound
    /\ last.op = "todo" /\ Why = "no match" => last.outcome = NotFound


\* an id that no loaded event and not the inserted event carries
Fresh(id) == id \notin Ids(last.before) /\ id # last.new.id

\* the parts of an overlapped event x that the inserted event leaves
BeforePart(x) == <<x.start_time, last.new.start_time>>
AfterPart(x) == <<last.new.end_time, x.end_time>>

\* the stored set holds the part of x under a fresh id with x's attributes
StoredPart(x, part) ==
    \E e \in Range(events) :
        /\ Fresh(e.id)
        /\ RangeOf(e) = part
        /\ SameAttrs(e, x)

\* an event of the resolved list with x's attributes ends where the part
\* starts or starts where the part ends
FusedPart(x, part) ==
    \E y \in Range(LastResolved) :
        /\ SameAttrs(y, x)
        /\ (y.end_time = part[1] \/ y.start_time = part[2])

\* C23 as amended: for every existing event X that overlaps the inserted
\* event, X's id is not in the result; the result holds the fragment
\* [X.start, incoming.start) when X starts before incoming and
\* [incoming.end, X.end) when X ends after incoming, each with X's
\* attributes and a fresh id, unless an event of the resolved list with
\* the same attributes touches the fragment and merge_events fuses them;
\* it holds no such fragment otherwise, so a covered X leaves none.
C23_SplitFragments ==
    Inserted =>
        \A x \in Range(last.before) :
            Overlap(last.new, x) =>
                /\ x.id \notin Ids(events)
                /\ x.start_time < last.new.start_time /\ ~FusedPart(x, BeforePart(x))
                       => StoredPart(x, BeforePart(x))
                /\ ~(x.start_time < last.new.start_time) => ~StoredPart(x, BeforePart(x))
                /\ x.end_time > last.new.end_time /\ ~FusedPart(x, AfterPart(x))
                       => StoredPart(x, AfterPart(x))
                /\ ~(x.end_time > last.new.end_time) => ~StoredPart(x, AfterPart(x))

\* an event cut in two and an event covered whole by the same insertion
C23_Witness ==
    /\ Inserted
    /\ \E x \in Range(last.before) :
          /\ Overlap(last.new, x)
          /\ x.start_time < last.new.start_time
          /\ StoredPart(x, BeforePart(x))
          /\ x.id \notin Ids(events)
    /\ \E x \in Range(last.before) :
          /\ Overlap(last.new, x)
          /\ x.start_time >= last.new.start_time /\ x.end_time <= last.new.end_time
          /\ x.id \notin Ids(events)

\* C23 as claimed: the result holds the fragment [X.start, incoming.start)
\* iff X starts before incoming and [incoming.end, X.end) iff X ends after
\* incoming.
C23_AsClaimed ==
    Inserted =>
        \A x \in Range(last.before) :
            Overlap(last.new, x) =>
                /\ x.id \notin Ids(events)
                /\ StoredPart(x, BeforePart(x)) <=> x.start_time < last.new.start_time
                /\ StoredPart(x, AfterPart(x)) <=> x.end_time > last.new.end_time


\* C24: the stored list is in non-decreasing order of start time after any
\* sequence of operations from the empty set: split_overlapping_events,
\* merge_events and delete_event with a timespan each leave it sorted.
C24_SortedByStart ==
    \A i, j \in DOMAIN events : i < j => events[i].start_time <= events[j].start_time

\* a delete with a timespan has cut an event, and the list it saved holds
\* a later-made event before an earlier-made one
C24_Witness ==
    /\ last.op = "delete" /\ Why = "deleted"
    /\ Len(events) > Len(last.before)
    /\ \E i, j \in DOMAIN events : i < j /\ events[i].id > events[j].id
    /\ C24_SortedByStart


\* the last run was a delete with a timespan that was applied
DeletedPart == last.op = "delete" /\ last.outcome = "saved" /\ last.removed # None

remove_start == last.removed[1][1]
remove_end == last.removed[1][2]

\* the stored events that were not loaded
AddedByDelete == {e \in Range(events) : e.id \notin Ids(last.before)}

\* one of them has this range and the attributes of the target
AddedPart(part) ==
    \E e \in AddedByDelete : RangeOf(e) = part /\ SameAttrs(e, last.original)

\* C25: a delete with a timespan that overlaps the target removes the
\* target's id and adds at most two fresh-id fragments, [target.start,
\* remove_start) if remove_start > target.start and [remove_end,
\* target.end) if remove_end < target.end, with the target's attributes,
\* and none of them covers an instant of [remove_start, remove_end); when
\* the timespan does not overlap the target, or the id is absent, the set
\* is unchanged and the run reports that no change was made.
C25_DeleteSubRange ==
    /\ DeletedPart =>
           /\ last.original.id \notin Ids(events)
           /\ Cardinality(AddedByDelete) <= 2
           /\ AddedPart(<<last.original.start_time, remove_start>>)
                  <=> remove_start > last.original.start_time
           /\ AddedPart(<<remove_end, last.original.end_time>>)
                  <=> remove_end < last.original.end_time
           /\ \A e \in AddedByDelete :
                  /\ SameAttrs(e, last.original)
                  /\ ~(e.start_time < remove_end /\ e.end_time > remove_start)
    /\ last.op = "delete" /\ Why \in {"no overlap", "unknown id"} =>
           /\ events = last.before
           /\ last.outcome = "returned"


\* C26: the ids of the stored events are pairwise distinct after any
\* sequence of add, quickadd, todo, set, delete and cleanup operations,
\* each generated id being different from every id generated before.
C26_UniqueIds ==
    \A i, j \in DOMAIN events : i # j => events[i].id # events[j].id

\* a set has moved an event onto others and the set holds its id, that of
\* a fragment and that of an untouched event
C26_Witness ==
    /\ SetSaved
    /\ last.overlaps
    /\ Len(events) >= 3
    /\ last.original.id \in Ids(events)
    /\ C26_UniqueIds

\* C27: the stored set never holds two events with identical summary,
\* note, location and booked flag where the end of one equals the start of
\* the other.
C27_Canonical ==
    \A i, j \in DOMAIN events :
        i # j /\ SameAttrs(events[i], events[j])
            => events[i].end_time # events[j].start_time


\* the last run was a todo placed in a slot that find_free_slot returned
TodoInSlot == last.op = "todo" /\ last.outcome = "saved" /\ last.label = None

====
